---------------------------- MODULE Spec2Model ----------------------------
(***************************************************************************)
(* A model of src/etl.py: the Spark job that turns song metadata and       *)
(* listening logs into the tables songs, artists, users, time, songplays.  *)
(*                                                                         *)
(* A DataFrame is a sequence of rows (a bag in some order), a row a        *)
(* record.  Every statement of process_song_data and process_log_data is   *)
(* one action, taken in program order (pc), with the semantics Spark gives *)
(* the operation it names.                                                 *)
(*                                                                         *)
(* Reading of the source.  The file as it stands is not executable: the    *)
(* parentheses of lines 96-98 are unbalanced, and several names are        *)
(* unbound (monotonically_increasing_id, date_convert, get_datetime, day,  *)
(* week, songs_df) or misspelt (userdId).  The model follows the data flow *)
(* the statements express, each such name bound to the object the          *)
(* neighbouring lines define or import:                                    *)
(*   get_datetime -> get_timestamp (line 91), songs_df -> df_songs (104),  *)
(*   userdId -> userId, day -> dayofmonth, week -> weekofyear (line 6),    *)
(*   monotonically_increasing_id -> pyspark.sql.functions'.                *)
(* date_convert is defined nowhere; it is modelled from the specification  *)
(* (epoch milliseconds to a timestamp).  A column name that two sides of a *)
(* join both carry (location, start_time) resolves to either side.         *)
(***************************************************************************)
EXTENDS Integers, Sequences, FiniteSets, TLC

(* ------------------------------ bounds -------------------------------- *)
\* longest metadata input, longest log input, runs of main on one store
MaxMeta == 2
MaxLog == 2
MaxRuns == 2

(* ------------------------------ values -------------------------------- *)
\* SQL NULL of a string column, of a numeric column, of a song_id
NULL == "NULL"
NullInt == -1
NullId == <<>>

\* s3a://udacity-dend/song_data/*/*/*/*.json: the records a run may read
MetaPool ==
  { [artist_id |-> "A1", artist_latitude |-> 10, artist_location |-> "L1",
     artist_longitude |-> 20, artist_name |-> "N1", duration |-> 200,
     num_songs |-> 1, title |-> "T1", year |-> 2000],
    [artist_id |-> "A1", artist_latitude |-> 10, artist_location |-> "L2",
     artist_longitude |-> 20, artist_name |-> "N1", duration |-> 200,
     num_songs |-> 1, title |-> "T1", year |-> 2000],
    [artist_id |-> "A2", artist_latitude |-> 30, artist_location |-> "L1",
     artist_longitude |-> 40, artist_name |-> "N2", duration |-> 180,
     num_songs |-> 1, title |-> "T2", year |-> 2003] }

\* s3a://udacity-dend/log_data/*/*/*.json: the events a run may read
LogPool ==
  { [page |-> "NextSong", userId |-> "U1", firstName |-> "F1", lastName |-> "S1",
     gender |-> "F", level |-> "free", song |-> "T1", artist |-> "N1",
     sessionId |-> 1, location |-> "P1", userAgent |-> "UA", ts |-> 1],
    [page |-> "NextSong", userId |-> "U1", firstName |-> "F1", lastName |-> "S1",
     gender |-> "F", level |-> "paid", song |-> "T1", artist |-> "N2",
     sessionId |-> 2, location |-> "P1", userAgent |-> "UA", ts |-> 2],
    [page |-> "NextSong", userId |-> NULL, firstName |-> NULL, lastName |-> NULL,
     gender |-> NULL, level |-> "free", song |-> "T3", artist |-> "N3",
     sessionId |-> 3, location |-> "P2", userAgent |-> "UA", ts |-> 1],
    [page |-> "Login", userId |-> "U2", firstName |-> "F2", lastName |-> "S2",
     gender |-> "M", level |-> "free", song |-> NULL, artist |-> NULL,
     sessionId |-> 4, location |-> "P2", userAgent |-> "UA", ts |-> 3] }

BoundedSeq(S, n) == UNION { [1..k -> S] : k \in 0..n }

Range(s) == { s[i] : i \in 1..Len(s) }

Tables == {"songs", "artists", "users", "time", "songplays"}

\* main writes the tables in this order (lines 58, 66, 88, 101, 130)
TableOrder == <<"songs", "artists", "users", "time", "songplays">>

Position(t) == CHOOSE i \in 1..Len(TableOrder) : TableOrder[i] = t

(* ------------------------- DataFrame operations ----------------------- *)
\* a = b in SQL: never true of a NULL
SqlEq(a, b) == a # NULL /\ b # NULL /\ a = b

\* the rows of s at the positions in keep, in order
KeepAt(s, keep) ==
  LET f[i \in 0..Len(s)] ==
        IF i = 0 THEN <<>>
        ELSE IF i \in keep THEN Append(f[i - 1], s[i]) ELSE f[i - 1]
  IN f[Len(s)]

\* DataFrame.dropDuplicates: one row kept per value of key (the first here)
DropDuplicatesBy(s, key(_)) ==
  KeepAt(s, { i \in 1..Len(s) : \A j \in 1..(i - 1) : key(s[j]) # key(s[i]) })

Identity(r) == r

dropDuplicates(s) == DropDuplicatesBy(s, Identity)

\* DataFrame.select / selectExpr / withColumn: a projection of every row
Project(s, f(_)) ==
  IF s = <<>> THEN <<>> ELSE [i \in 1..Len(s) |-> f(s[i])]

\* DataFrame.join(other, on): how = 'inner' by default
InnerJoin(left, right, on(_, _), merge(_, _)) ==
  LET matches(l) == Project(SelectSeq(right, LAMBDA r : on(l, r)),
                            LAMBDA r : merge(l, r))
      f[i \in 0..Len(left)] ==
        IF i = 0 THEN <<>> ELSE f[i - 1] \o matches(left[i])
  IN f[Len(left)]

\* DataFrame.join(other, on, 'left'): an unmatched left row is kept once, the
\* right side's columns null
LeftJoin(left, right, on(_, _), merge(_, _), nullRow) ==
  LET matches(l) ==
        LET m == SelectSeq(right, LAMBDA r : on(l, r))
        IN IF m = <<>> THEN <<merge(l, nullRow)>>
           ELSE Project(m, LAMBDA r : merge(l, r))
      f[i \in 0..Len(left)] ==
        IF i = 0 THEN <<>> ELSE f[i - 1] \o matches(left[i])
  IN f[Len(left)]

(* ------------------------------ calendar ------------------------------ *)
\* A TimestampType value is a count of microseconds since 1970-01-01T00:00Z.
\* date_convert: epoch milliseconds to that timestamp
\* (datetime.fromtimestamp(ts / 1000.0)).
date_convert(ts) == ts * 1000

\* get_timestamp = udf(date_convert, TimestampType()): NULL for a NULL
get_timestamp(ts) == IF ts = NullInt THEN NullInt ELSE date_convert(ts)

EpochDay(st) == (st \div 1000000) \div 86400

\* the civil date of a day number (days since 1970-01-01), proleptic Gregorian
Civil(epochDay) ==
  LET z == epochDay + 719468
      era == z \div 146097
      doe == z - era * 146097
      yoe == (doe - doe \div 1460 + doe \div 36524 - doe \div 146096) \div 365
      doy == doe - (365 * yoe + yoe \div 4 - yoe \div 100)
      mp == (5 * doy + 2) \div 153
      d == doy - (153 * mp + 2) \div 5 + 1
      m == IF mp < 10 THEN mp + 3 ELSE mp - 9
      y == yoe + era * 400 + (IF m <= 2 THEN 1 ELSE 0)
  IN [year |-> y, month |-> m, day |-> d]

DaysFromCivil(y0, m, d) ==
  LET y == IF m <= 2 THEN y0 - 1 ELSE y0
      era == y \div 400
      yoe == y - era * 400
      mp == IF m > 2 THEN m - 3 ELSE m + 9
      doy == (153 * mp + 2) \div 5 + d - 1
      doe == yoe * 365 + yoe \div 4 - yoe \div 100 + doy
  IN era * 146097 + doe - 719468

\* ISO weekday of a day number, Monday = 1 (1970-01-01 was a Thursday)
IsoWeekday(epochDay) == ((epochDay + 3) % 7) + 1

\* ISO-8601 has 53 weeks in a year that starts, or whose predecessor ends, on
\* the right weekday
WeeksInYear(y) ==
  LET p(x) == (x + x \div 4 - x \div 100 + x \div 400) % 7
  IN IF p(y) = 4 \/ p(y - 1) = 3 THEN 53 ELSE 52

hour(st) == ((st \div 1000000) % 86400) \div 3600

dayofmonth(st) == Civil(EpochDay(st)).day

month(st) == Civil(EpochDay(st)).month

year(st) == Civil(EpochDay(st)).year

weekofyear(st) ==
  LET y == year(st)
      doy == EpochDay(st) - DaysFromCivil(y, 1, 1) + 1
      w == (doy - IsoWeekday(EpochDay(st)) + 10) \div 7
  IN IF w < 1 THEN WeeksInYear(y - 1)
     ELSE IF w > WeeksInYear(y) THEN 1 ELSE w

\* date_format(start_time, 'E')
date_format_E(st) ==
  <<"Mon", "Tue", "Wed", "Thu", "Fri", "Sat", "Sun">>[IsoWeekday(EpochDay(st))]

(* ------------------------------- state -------------------------------- *)
VARIABLES
  metadata,            \* the song_data records, in the order read
  log,                 \* the log_data records, in the order read
  store,               \* output_data: what each table's location holds
  run,                 \* which run of main this is
  history,             \* how the earlier runs ended
  pc,                  \* the statement main is at
  exc,                 \* the exception raised in this run, if any
  written,             \* the tables this run has written
  df_song,             \* process_song_data's df
  songs_table,
  artists_table,
  df,                  \* process_log_data's df
  users_table,
  time_table,
  df_songs,
  df_artists,
  songs_logs,
  artists_songs_logs,
  songplays,
  songplays_table

inputs == <<metadata, log>>

song_locals == <<df_song, songs_table, artists_table>>

log_locals == <<df, users_table, time_table, df_songs, df_artists, songs_logs,
                artists_songs_logs, songplays, songplays_table>>

vars == <<metadata, log, store, run, history, pc, exc, written, df_song,
          songs_table, artists_table, df, users_table, time_table, df_songs,
          df_artists, songs_logs, artists_songs_logs, songplays,
          songplays_table>>

NoException == [kind |-> "none", table |-> "none"]

Absent == [exists |-> FALSE, rows |-> <<>>, partitions |-> {}]

Init ==
  /\ metadata \in BoundedSeq(MetaPool, MaxMeta)
  /\ log \in BoundedSeq(LogPool, MaxLog)
  /\ store = [t \in Tables |-> Absent]
  /\ run = 1
  /\ history = <<>>
  /\ pc = "song_read"
  /\ exc = NoException
  /\ written = {}
  /\ df_song = <<>> /\ songs_table = <<>> /\ artists_table = <<>>
  /\ df = <<>> /\ users_table = <<>> /\ time_table = <<>>
  /\ df_songs = <<>> /\ df_artists = <<>> /\ songs_logs = <<>>
  /\ artists_songs_logs = <<>> /\ songplays = <<>> /\ songplays_table = <<>>

(* --------------------------- failure, writes -------------------------- *)
\* (mutant) the exception is caught and the run goes on
Raise_swallowed(next) == next

\* Nothing in process_song_data, process_log_data or main catches an
\* exception: it leaves main, whatever statement would have been next.
Raise(next) == "failed"

\* DataFrameWriter's mode when .mode() is never called
SaveMode == "errorifexists"

\* the values of the partitionBy columns present in rows
PartitionKeys(rows, key(_)) == { key(rows[i]) : i \in 1..Len(rows) }

\* df.write[.partitionBy(...)].parquet(output_data + t): the location is
\* written, or the write raises (the path exists already, or the sink fails)
\* and the location stays as it was.
Write(t, rows, keys, next) ==
  \/ /\ store[t].exists => SaveMode = "overwrite"
     /\ store' = [store EXCEPT ![t] =
                    [exists |-> TRUE, rows |-> rows, partitions |-> keys]]
     /\ written' = written \cup {t}
     /\ pc' = next
     /\ UNCHANGED exc
  \/ /\ store[t].exists /\ SaveMode = "errorifexists"
     /\ exc' = [kind |-> "exists", table |-> t]
     /\ pc' = Raise(next)
     /\ UNCHANGED <<store, written>>
  \/ /\ store[t].exists => SaveMode = "overwrite"
     /\ exc' = [kind |-> "io", table |-> t]
     /\ pc' = Raise(next)
     /\ UNCHANGED <<store, written>>

(* -------------------------- process_song_data ------------------------- *)
\* spark.read.json(song_data, schema=songSchema)
ReadSongData ==
  /\ pc = "song_read"
  /\ df_song' = metadata
  /\ pc' = "songs_table"
  /\ UNCHANGED <<inputs, store, run, history, exc, written, songs_table,
                 artists_table, log_locals>>

song_columns(r) ==
  [title |-> r.title, artist_id |-> r.artist_id, year |-> r.year,
   duration |-> r.duration]

\* (mutant) the partition's number is left out of the id
monotonically_increasing_id_per_partition(partition, record) == <<0, record>>

\* The 64-bit id: the partition's number in the upper 31 bits, the row's
\* number within its partition in the lower 33; kept here as the two fields.
monotonically_increasing_id(partition, record) == <<partition, record>>

\* withColumn("song_id", ...) on rows of which the first k lie in partition 0
\* and the rest in partition 1
WithSongId(rows, k) ==
  IF rows = <<>> THEN <<>>
  ELSE [i \in 1..Len(rows) |->
          rows[i] @@ [song_id |->
             IF i <= k THEN monotonically_increasing_id(0, i - 1)
             ELSE monotonically_increasing_id(1, i - k - 1)]]

\* df.select(song_columns).dropDuplicates()
DistinctSongs(d) == dropDuplicates(Project(d, song_columns))

ExtractSongs ==
  /\ pc = "songs_table"
  /\ \E k \in 0..Len(DistinctSongs(df_song)) :
       songs_table' = WithSongId(DistinctSongs(df_song), k)
  /\ pc' = "songs_write"
  /\ UNCHANGED <<inputs, store, run, history, exc, written, df_song,
                 artists_table, log_locals>>

songs_partition(r) == <<r.year, r.artist_id>>

WriteSongs ==
  /\ pc = "songs_write"
  /\ Write("songs", songs_table, PartitionKeys(songs_table, songs_partition),
           "artists_table")
  /\ UNCHANGED <<inputs, run, history, song_locals, log_locals>>

artists_columns(r) ==
  [artist_id |-> r.artist_id, name |-> r.artist_name,
   location |-> r.artist_location, latitude |-> r.artist_latitude,
   longitude |-> r.artist_longitude]

\* df.selectExpr(artists_columns).dropDuplicates(): whole rows are compared
ExtractArtists ==
  /\ pc = "artists_table"
  /\ artists_table' = dropDuplicates(Project(df_song, artists_columns))
  /\ pc' = "artists_write"
  /\ UNCHANGED <<inputs, store, run, history, exc, written, df_song,
                 songs_table, log_locals>>

no_partition(r) == <<>>

WriteArtists ==
  /\ pc = "artists_write"
  /\ Write("artists", artists_table, PartitionKeys(artists_table, no_partition),
           "log_read")
  /\ UNCHANGED <<inputs, run, history, song_locals, log_locals>>

(* -------------------------- process_log_data -------------------------- *)
\* spark.read.json(log_data)
ReadLogData ==
  /\ pc = "log_read"
  /\ df' = log
  /\ pc' = "filter"
  /\ UNCHANGED <<inputs, store, run, history, exc, written, song_locals,
                 users_table, time_table, df_songs, df_artists, songs_logs,
                 artists_songs_logs, songplays, songplays_table>>

\* (mutant) every page passes
is_next_song_any_page(r) == r.page # NULL

\* df.page == 'NextSong'
is_next_song(r) == SqlEq(r.page, "NextSong")

\* df = df.filter(df.page == 'NextSong')
FilterNextSong ==
  /\ pc = "filter"
  /\ df' = SelectSeq(df, is_next_song)
  /\ pc' = "users_table"
  /\ UNCHANGED <<inputs, store, run, history, exc, written, song_locals,
                 users_table, time_table, df_songs, df_artists, songs_logs,
                 artists_songs_logs, songplays, songplays_table>>

users_columns(r) ==
  [user_id |-> r.userId, first_name |-> r.firstName, last_name |-> r.lastName,
   gender |-> r.gender, level |-> r.level]

user_key(r) == r.user_id

\* .dropDuplicates(subset=['userId']): NULL is a key like any other
users_dedup(s) == DropDuplicatesBy(s, user_key)

\* df.selectExpr(users_columns).dropDuplicates(subset=['userId'])
ExtractUsers ==
  /\ pc = "users_table"
  /\ users_table' = users_dedup(Project(df, users_columns))
  /\ pc' = "users_write"
  /\ UNCHANGED <<inputs, store, run, history, exc, written, song_locals, df,
                 time_table, df_songs, df_artists, songs_logs,
                 artists_songs_logs, songplays, songplays_table>>

WriteUsers ==
  /\ pc = "users_write"
  /\ Write("users", users_table, PartitionKeys(users_table, no_partition),
           "start_time")
  /\ UNCHANGED <<inputs, run, history, song_locals, log_locals>>

with_start_time(r) == r @@ [start_time |-> get_timestamp(r.ts)]

\* df = df.withColumn("start_time", get_timestamp('ts'))
AddStartTime ==
  /\ pc = "start_time"
  /\ df' = Project(df, with_start_time)
  /\ pc' = "time_table"
  /\ UNCHANGED <<inputs, store, run, history, exc, written, song_locals,
                 users_table, time_table, df_songs, df_artists, songs_logs,
                 artists_songs_logs, songplays, songplays_table>>

select_start_time(r) == [start_time |-> r.start_time]

\* (mutant) the duplicates are kept
time_dedup_missing(s) == s

\* df.select("start_time").dropDuplicates()
time_dedup(s) == dropDuplicates(s)

time_columns(r) ==
  [start_time |-> r.start_time, hour |-> hour(r.start_time),
   day |-> dayofmonth(r.start_time), week |-> weekofyear(r.start_time),
   month |-> month(r.start_time), year |-> year(r.start_time),
   weekday |-> date_format_E(r.start_time)]

ExtractTime ==
  /\ pc = "time_table"
  /\ time_table' = Project(time_dedup(Project(df, select_start_time)),
                           time_columns)
  /\ pc' = "time_write"
  /\ UNCHANGED <<inputs, store, run, history, exc, written, song_locals, df,
                 users_table, df_songs, df_artists, songs_logs,
                 artists_songs_logs, songplays, songplays_table>>

year_month(r) == <<r.year, r.month>>

WriteTime ==
  /\ pc = "time_write"
  /\ Write("time", time_table, PartitionKeys(time_table, year_month),
           "read_back")
  /\ UNCHANGED <<inputs, run, history, song_locals, log_locals>>

\* A file read through the glob songs/*/*/* has its own directory as base
\* path: the partition columns year and artist_id, which live in the
\* directory names, are not among its columns.
songs_file_columns(r) ==
  [title |-> r.title, duration |-> r.duration, song_id |-> r.song_id]

\* spark.read.parquet(output_data + 'songs/*/*/*') and (... + 'artists/*'):
\* a glob that matches no file raises
ReadSongsArtists ==
  /\ pc = "read_back"
  /\ \/ /\ store["songs"].rows # <<>>
        /\ df_songs' = Project(store["songs"].rows, songs_file_columns)
        /\ df_artists' = store["artists"].rows
        /\ pc' = "join_songs"
        /\ UNCHANGED exc
     \/ /\ store["songs"].rows = <<>>
        /\ exc' = [kind |-> "read", table |-> "songs"]
        /\ pc' = Raise("join_songs")
        /\ UNCHANGED <<df_songs, df_artists>>
  /\ UNCHANGED <<inputs, store, run, history, written, song_locals, df,
                 users_table, time_table, songs_logs, artists_songs_logs,
                 songplays, songplays_table>>

song_title_match(l, r) == SqlEq(l.song, r.title)

log_song(l, r) == [log |-> l, song |-> r]

\* songs_logs = df.join(df_songs, (df.song == df_songs.title))
JoinSongs ==
  /\ pc = "join_songs"
  /\ songs_logs' = InnerJoin(df, df_songs, song_title_match, log_song)
  /\ pc' = "join_artists"
  /\ UNCHANGED <<inputs, store, run, history, exc, written, song_locals, df,
                 users_table, time_table, df_songs, df_artists,
                 artists_songs_logs, songplays, songplays_table>>

artist_name_match(l, r) == SqlEq(l.log.artist, r.name)

log_song_artist(l, r) == [log |-> l.log, song |-> l.song, artist |-> r]

\* artists_songs_logs = songs_logs.join(df_artists,
\*                                      (songs_logs.artist == df_artists.name))
JoinArtists ==
  /\ pc = "join_artists"
  /\ artists_songs_logs' =
       InnerJoin(songs_logs, df_artists, artist_name_match, log_song_artist)
  /\ pc' = "join_time"
  /\ UNCHANGED <<inputs, store, run, history, exc, written, song_locals, df,
                 users_table, time_table, df_songs, df_artists, songs_logs,
                 songplays, songplays_table>>

\* artists_songs_logs.ts == time_table.start_time: the event's epoch
\* milliseconds against the timestamp made of them
ts_start_time_match(l, r) ==
  l.log.ts # NullInt /\ r.start_time # NullInt /\ l.log.ts = r.start_time

with_time(l, r) == [log |-> l.log, song |-> l.song, artist |-> l.artist, time |-> r]

\* what a left join gives an unmatched row for time_table's columns
NullTime ==
  [start_time |-> NullInt, hour |-> NullInt, day |-> NullInt, week |-> NullInt,
   month |-> NullInt, year |-> NullInt, weekday |-> NULL]

\* songplays = artists_songs_logs.join(time_table, ..., 'left')
\*             .drop(artists_songs_logs.year)
\* (nothing follows the join: no row is checked for a match)
JoinTime ==
  /\ pc = "join_time"
  /\ songplays' = LeftJoin(artists_songs_logs, time_table, ts_start_time_match,
                           with_time, NullTime)
  /\ pc' = "select"
  /\ UNCHANGED <<inputs, store, run, history, exc, written, song_locals, df,
                 users_table, time_table, df_songs, df_artists, songs_logs,
                 artists_songs_logs, songplays_table>>

\* The select's columns.  location is a column of the log and of artists,
\* start_time of df and of time_table: each name resolves to one of its two.
songplays_columns(r, locationOf, startTimeOf) ==
  [start_time |-> IF startTimeOf = "log" THEN r.log.start_time
                  ELSE r.time.start_time,
   user_id |-> r.log.userId,
   level |-> r.log.level,
   song_id |-> r.song.song_id,
   artist_id |-> r.artist.artist_id,
   session_id |-> r.log.sessionId,
   location |-> IF locationOf = "log" THEN r.log.location
                ELSE r.artist.location,
   user_agent |-> r.log.userAgent,
   year |-> r.time.year,
   month |-> r.time.month]

\* songplays_table = songplays.select(...).repartition("year", "month")
SelectSongplays ==
  /\ pc = "select"
  /\ \E locationOf \in {"log", "artists"}, startTimeOf \in {"log", "time"} :
       songplays_table' =
         Project(songplays,
                 LAMBDA r : songplays_columns(r, locationOf, startTimeOf))
  /\ pc' = "songplays_write"
  /\ UNCHANGED <<inputs, store, run, history, exc, written, song_locals, df,
                 users_table, time_table, df_songs, df_artists, songs_logs,
                 artists_songs_logs, songplays>>

WriteSongplays ==
  /\ pc = "songplays_write"
  /\ Write("songplays", songplays_table,
           PartitionKeys(songplays_table, year_month), "done")
  /\ UNCHANGED <<inputs, run, history, song_locals, log_locals>>

(* -------------------------------- main -------------------------------- *)
\* main is run again on the same input and the same output_data
Rerun ==
  /\ pc \in {"done", "failed"}
  /\ run < MaxRuns
  /\ run' = run + 1
  /\ history' = Append(history, pc)
  /\ pc' = "song_read"
  /\ exc' = NoException
  /\ written' = {}
  /\ df_song' = <<>> /\ songs_table' = <<>> /\ artists_table' = <<>>
  /\ df' = <<>> /\ users_table' = <<>> /\ time_table' = <<>>
  /\ df_songs' = <<>> /\ df_artists' = <<>> /\ songs_logs' = <<>>
  /\ artists_songs_logs' = <<>> /\ songplays' = <<>> /\ songplays_table' = <<>>
  /\ UNCHANGED <<inputs, store>>

process_song_data ==
  ReadSongData \/ ExtractSongs \/ WriteSongs \/ ExtractArtists \/ WriteArtists

process_log_data ==
  \/ ReadLogData \/ FilterNextSong \/ ExtractUsers \/ WriteUsers
  \/ AddStartTime \/ ExtractTime \/ WriteTime \/ ReadSongsArtists
  \/ JoinSongs \/ JoinArtists \/ JoinTime \/ SelectSongplays \/ WriteSongplays

Next == process_song_data \/ process_log_data \/ Rerun

Spec == Init /\ [][Next]_vars

(* ------------------------- where a run stands ------------------------- *)
Steps ==
  <<"song_read", "songs_table", "songs_write", "artists_table",
    "artists_write", "log_read", "filter", "users_table", "users_write",
    "start_time", "time_table", "time_write", "read_back", "join_songs",
    "join_artists", "join_time", "select", "songplays_write", "done">>

StepIndex(label) == CHOOSE i \in 1..Len(Steps) : Steps[i] = label

WriteStep(t) ==
  CASE t = "songs" -> "songs_write"
    [] t = "artists" -> "artists_write"
    [] t = "users" -> "users_write"
    [] t = "time" -> "time_write"
    [] t = "songplays" -> "songplays_write"

\* the statement the run is at, or was at when it raised
Here ==
  IF pc # "failed" THEN pc
  ELSE IF exc.kind = "read" THEN "read_back" ELSE WriteStep(exc.table)

\* the statement labelled label has been executed in this run
Past(label) == StepIndex(Here) > StepIndex(label)

\* the events of the input that the filter is to keep
NextSongEvents == SelectSeq(log, LAMBDA e : e.page = "NextSong")

Indices(s) == 1..Len(s)

(* =============================== claims =============================== *)

\* C1 (as claimed): when no filtered event matches any song title or artist
\* name of the catalog, the songplays table has one row per filtered event,
\* each with null song_id and artist_id.
C1_OuterJoinCompleteness ==
  (/\ pc \in {"songplays_write", "done"}
   /\ \A e \in Range(NextSongEvents), m \in Range(metadata) :
        e.song # m.title /\ e.artist # m.artist_name)
  => /\ Len(songplays_table) = Len(NextSongEvents)
     /\ \A i \in Indices(songplays_table) :
          /\ songplays_table[i].song_id = NullId
          /\ songplays_table[i].artist_id = NULL

\* C2 (as claimed): a songplays row with song_id and artist_id has the
\* event's song as the title of that song, the event's artist as the name of
\* that artist, and that artist is the song's artist.
C2_TwoHopMatch ==
  pc \in {"songplays_write", "done"} =>
    \A i \in Indices(songplays_table) :
      (songplays_table[i].song_id # NullId /\ songplays_table[i].artist_id # NULL)
      => \E s \in Range(store["songs"].rows), a \in Range(store["artists"].rows) :
           /\ s.song_id = songplays_table[i].song_id
           /\ s.title = songplays[i].log.song
           /\ a.artist_id = songplays_table[i].artist_id
           /\ a.name = songplays[i].log.artist
           /\ a.artist_id = s.artist_id

\* C3 (as claimed): a joined event row without a time row of its timestamp
\* fails the run; no songplays row, built or written, has a null year or
\* month.
C3_TimeMatchOrFail ==
  /\ pc \in {"select", "songplays_write", "done"} =>
       \A i \in Indices(artists_songs_logs) :
         \E j \in Indices(time_table) :
           ts_start_time_match(artists_songs_logs[i], time_table[j])
  /\ \A r \in Range(songplays_table) \cup Range(store["songplays"].rows) :
       r.year # NullInt /\ r.month # NullInt

\* C4 (as claimed): the artists table holds exactly one row per artist_id of
\* the metadata, also when records of one artist_id differ in their other
\* columns.
C4_ArtistUniqueness ==
  Past("artists_table") =>
    /\ { artists_table[i].artist_id : i \in Indices(artists_table) }
         = { metadata[i].artist_id : i \in Indices(metadata) }
    /\ \A i, j \in Indices(artists_table) :
         artists_table[i].artist_id = artists_table[j].artist_id => i = j

SongTuple(r) == <<r.title, r.artist_id, r.year, r.duration>>

SongTuples(t) == { SongTuple(t[i]) : i \in Indices(t) }

SongIds(t) == { t[i].song_id : i \in Indices(t) }

Permute(s, p) == IF s = <<>> THEN <<>> ELSE [i \in 1..Len(s) |-> s[p[i]]]

\* a songs table holds each tuple of T once, under song_ids of its own
SongsTableOf(t, T) ==
  /\ SongTuples(t) = T
  /\ Len(t) = Cardinality(T)
  /\ Cardinality(SongIds(t)) = Cardinality(T)

\* C5: in whatever order the metadata is read and however its rows fall into
\* partitions, the songs table holds the same set of (title, artist_id, year,
\* duration) tuples, one row per tuple, with pairwise distinct song_ids; so
\* do the table this run built and the table stored.
C5_SongsDedupStable ==
  LET T == { SongTuple(metadata[i]) : i \in Indices(metadata) }
  IN /\ Past("songs_table") => SongsTableOf(songs_table, T)
     /\ store["songs"].exists => SongsTableOf(store["songs"].rows, T)
     /\ pc = "songs_write" =>
          \A p \in Permutations(Indices(metadata)) :
            \A k \in 0..Cardinality(T) :
              SongsTableOf(WithSongId(DistinctSongs(Permute(metadata, p)), k), T)

\* C5's case: two metadata records that differ, of one song tuple, written as
\* one songs row
C5_Witness ==
  /\ store["songs"].exists
  /\ Len(metadata) = 2 /\ metadata[1] # metadata[2]
  /\ Len(store["songs"].rows) = 1

\* C6 (as claimed): the users table has at most one row per user identifier
\* and no row whose user identifier is null.
C6_UsersUniqueNonNull ==
  \A t \in {users_table, store["users"].rows} :
    /\ \A i, j \in Indices(t) : t[i].user_id = t[j].user_id => i = j
    /\ \A i \in Indices(t) : t[i].user_id # NULL

\* a users, time or songplays row is made of the event e
FromEvent(table, r, e) ==
  CASE table = "users" -> r = users_columns(e)
    [] table = "time" -> r.start_time = get_timestamp(e.ts)
    [] table = "songplays" ->
         /\ r.user_id = e.userId /\ r.level = e.level
         /\ r.session_id = e.sessionId /\ r.user_agent = e.userAgent

\* C7: the filter keeps exactly the rows whose page is "NextSong", as many as
\* the input has, and every users, time and songplays row, built or written,
\* is made of an input row with that page.
C7_FilterGate ==
  /\ Past("filter") =>
       /\ Len(df) = Cardinality({ i \in Indices(log) : log[i].page = "NextSong" })
       /\ \A i \in Indices(df) : df[i].page = "NextSong"
  /\ \A table \in {"users", "time", "songplays"} :
       LET built == CASE table = "users" -> users_table
                      [] table = "time" -> time_table
                      [] table = "songplays" -> songplays_table
       IN \A r \in Range(built) \cup Range(store[table].rows) :
            \E i \in Indices(log) :
              log[i].page = "NextSong" /\ FromEvent(table, r, log[i])

\* C7's case: a log of a "NextSong" and a "Login" event, its users written
C7_Witness ==
  /\ \E i, j \in Indices(log) : log[i].page = "NextSong" /\ log[j].page = "Login"
  /\ store["users"].exists /\ Len(store["users"].rows) = 1
  /\ Past("filter") /\ Len(df) = 1

\* C8 (as claimed): a second run on unchanged input, after a first run that
\* completed, is not rejected because a target exists; it completes, and each
\* location then holds the rows of that one run.
C8_RerunIdempotent ==
  (run = 2 /\ history = <<"done">>) =>
    /\ exc.kind # "exists"
    /\ pc = "done" =>
         /\ store["songs"].rows = songs_table
         /\ store["artists"].rows = artists_table
         /\ store["users"].rows = users_table
         /\ store["time"].rows = time_table
         /\ store["songplays"].rows = songplays_table

\* C9: the time table has one row per distinct ts of the filtered events, as
\* many rows as there are distinct timestamps, and start_time is unique in it.
C9_TimeRowPerTimestamp ==
  \A t \in (IF Past("time_table") THEN {time_table} ELSE {})
           \cup (IF store["time"].exists THEN {store["time"].rows} ELSE {}) :
    /\ Len(t) = Cardinality({ NextSongEvents[i].ts : i \in Indices(NextSongEvents) })
    /\ \A i, j \in Indices(t) : t[i].start_time = t[j].start_time => i = j
    /\ { t[i].start_time : i \in Indices(t) }
         = { get_timestamp(NextSongEvents[i].ts) : i \in Indices(NextSongEvents) }

\* C9's case: two filtered events of one timestamp, one time row written
C9_Witness ==
  /\ Len(NextSongEvents) = 2
  /\ NextSongEvents[1].ts = NextSongEvents[2].ts
  /\ store["time"].exists /\ Len(store["time"].rows) = 1

\* C10: once a table write has failed, the run is failed: it is not at any
\* later statement, has written no later table, and is not done.
C10_WriteFailureIsFatal ==
  exc.kind \in {"io", "exists"} =>
    /\ pc = "failed"
    /\ exc.table \notin written
    /\ \A t \in written : Position(t) < Position(exc.table)

\* C10's case: the users write fails after songs and artists were written
C10_Witness ==
  /\ exc = [kind |-> "io", table |-> "users"]
  /\ pc = "failed"
  /\ written = {"songs", "artists"}

=============================================================================
